---------------------------- MODULE Spec2Model ----------------------------
(***************************************************************************)
(* Model of the HTTP backend in src/api: the /check_cc request handler     *)
(* (app.py) and the service functions it calls (services.py), configured   *)
(* by config.py.                                                           *)
(*                                                                         *)
(* Text is a sequence of characters; a character is a one-character        *)
(* string.  Characters outside ASCII are named: "o_acute" is U+00F3,       *)
(* "a_acute" U+00E1, "c_cedilla" U+00E7, "sup2" U+00B2 (SUPERSCRIPT TWO).  *)
(* Python's None, where a string may be None, is NoneStr.                  *)
(***************************************************************************)
EXTENDS Integers, Sequences, FiniteSets, Bags, TLC

VARIABLES
    settings,   \* config.settings.credits, read from the environment at import
    requests,   \* bag of the /check_cc requests being handled
    call        \* a direct call of one service function (fn = "none": no call)

vars == <<settings, requests, call>>

----------------------------------------------------------------------------
(* Bounds of the model *)

\* requests handled at the same time
NumReq == 2
\* characters of a text given to clean_html
MaxLen == 5
\* words of a text given to the classifier
MaxWords == 2
\* whitespace characters around a card string
MaxPad == 1

----------------------------------------------------------------------------
(* Program constants *)

DEFAULT_CREDITS == 30
LIVE_CARD_COST == 2
DEFAULT_USER_ID == 999999
MIN_CC_LEN == 13
MAX_CC_LEN == 19
MONTH_LEN == 2
YEAR_LEN == 4
MIN_YEAR == 2024
MIN_CVV_LEN == 3
MAX_CVV_LEN == 4
BIN_LEN == 6
FLAG_OFFSET == 127397

----------------------------------------------------------------------------
(* Characters and strings *)

UpperSeq ==
    <<"A", "B", "C", "D", "E", "F", "G", "H", "I", "J", "K", "L", "M",
      "N", "O", "P", "Q", "R", "S", "T", "U", "V", "W", "X", "Y", "Z",
      "O_ACUTE", "A_ACUTE", "C_CEDILLA">>

LowerSeq ==
    <<"a", "b", "c", "d", "e", "f", "g", "h", "i", "j", "k", "l", "m",
      "n", "o", "p", "q", "r", "s", "t", "u", "v", "w", "x", "y", "z",
      "o_acute", "a_acute", "c_cedilla">>

\* str.lower() and str.upper() on one character
LowerChar(c) ==
    IF \E i \in DOMAIN UpperSeq : UpperSeq[i] = c
    THEN LowerSeq[CHOOSE i \in DOMAIN UpperSeq : UpperSeq[i] = c]
    ELSE c

UpperChar(c) ==
    IF \E i \in DOMAIN LowerSeq : LowerSeq[i] = c
    THEN UpperSeq[CHOOSE i \in DOMAIN LowerSeq : LowerSeq[i] = c]
    ELSE c

Lower(s) == [i \in DOMAIN s |-> LowerChar(s[i])]

\* ord() of an ASCII capital letter
Ord(c) == 64 + (CHOOSE i \in 1..26 : UpperSeq[i] = c)

AsciiDigits == <<"0", "1", "2", "3", "4", "5", "6", "7", "8", "9">>

\* the characters int() reads as a decimal digit
IsDecimal(c) == \E i \in DOMAIN AsciiDigits : AsciiDigits[i] = c

DecimalValue(c) == (CHOOSE i \in DOMAIN AsciiDigits : AsciiDigits[i] = c) - 1

\* str.isdigit() on one character: true of the decimal digits and also of
\* digit characters that are no decimal digit, such as the superscripts
IsDigitChar(c) == IsDecimal(c) \/ c = "sup2"

\* str.isdigit(): false of the empty string
IsDigit(s) == Len(s) > 0 /\ \A i \in DOMAIN s : IsDigitChar(s[i])

\* the whitespace of str.strip() and of the regex class \s
IsSpace(c) == c \in {" ", "\n", "\t"}

RECURSIVE LStrip(_)
LStrip(s) ==
    IF Len(s) > 0 /\ IsSpace(Head(s)) THEN LStrip(Tail(s)) ELSE s

RECURSIVE RStrip(_)
RStrip(s) ==
    IF Len(s) > 0 /\ IsSpace(s[Len(s)])
    THEN RStrip(SubSeq(s, 1, Len(s) - 1))
    ELSE s

\* str.strip()
Strip(s) == RStrip(LStrip(s))

\* str.split(sep) for a one-character separator: always at least one part
RECURSIVE SplitFrom(_, _, _)
SplitFrom(s, sep, cur) ==
    IF Len(s) = 0 THEN <<cur>>
    ELSE IF Head(s) = sep THEN <<cur>> \o SplitFrom(Tail(s), sep, <<>>)
    ELSE SplitFrom(Tail(s), sep, Append(cur, Head(s)))

Split(s, sep) == SplitFrom(s, sep, <<>>)

\* int() of a string str.isdigit() accepted: it raises ValueError when a
\* character is no decimal digit
RECURSIVE DecimalNumber(_)
DecimalNumber(s) ==
    IF Len(s) = 0 THEN 0
    ELSE 10 * DecimalNumber(SubSeq(s, 1, Len(s) - 1)) + DecimalValue(s[Len(s)])

IntOf(s) ==
    IF \A i \in DOMAIN s : IsDecimal(s[i])
    THEN [raised |-> FALSE, value |-> DecimalNumber(s)]
    ELSE [raised |-> TRUE, value |-> 0]

----------------------------------------------------------------------------
(* ValidationService *)

\* validate_cc_format: "True", "False", or "ValueError" when int() raises
validate_cc_format(cc) ==
    IF Len(cc) = 0 THEN "False"
    ELSE LET parts == Split(Strip(cc), "|") IN
      IF Len(parts) # 4 THEN "False"
      ELSE LET cc_number == parts[1]
               month == parts[2]
               year == parts[3]
               cvv == parts[4]
           IN
        IF ~ (\A i \in 1..4 : IsDigit(parts[i])) THEN "False"
        ELSE IF ~ (MIN_CC_LEN <= Len(cc_number) /\ Len(cc_number) <= MAX_CC_LEN)
             THEN "False"
        ELSE IF Len(month) # MONTH_LEN THEN "False"
        ELSE IF IntOf(month).raised THEN "ValueError"
        ELSE IF ~ (1 <= IntOf(month).value /\ IntOf(month).value <= 12)
             THEN "False"
        ELSE IF Len(year) # YEAR_LEN THEN "False"
        ELSE IF IntOf(year).raised THEN "ValueError"
        ELSE IF IntOf(year).value < MIN_YEAR THEN "False"
        ELSE IF ~ (MIN_CVV_LEN <= Len(cvv) /\ Len(cvv) <= MAX_CVV_LEN)
             THEN "False"
        ELSE "True"

\* validate_cookie: bool(cookie and cookie.strip())
validate_cookie(cookie) == Len(cookie) > 0 /\ Len(Strip(cookie)) > 0

----------------------------------------------------------------------------
(* UtilsService *)

\* re.sub('<.*?>', '', s): from a '<', the shortest match ends at the next
\* '>', and '.' does not match a newline
RECURSIVE RemoveTags(_)
RemoveTags(s) ==
    IF Len(s) = 0 THEN <<>>
    ELSE IF Head(s) = "<"
            /\ \E j \in 2..Len(s) :
                  /\ s[j] = ">"
                  /\ \A k \in 2..(j - 1) : s[k] # ">" /\ s[k] # "\n"
         THEN LET j == CHOOSE j \in 2..Len(s) :
                          /\ s[j] = ">"
                          /\ \A k \in 2..(j - 1) : s[k] # ">" /\ s[k] # "\n"
              IN RemoveTags(SubSeq(s, j + 1, Len(s)))
         ELSE <<Head(s)>> \o RemoveTags(Tail(s))

\* re.sub(r'\s+', ' ', s)
RECURSIVE CollapseSpaces(_)
CollapseSpaces(s) ==
    IF Len(s) = 0 THEN <<>>
    ELSE IF IsSpace(Head(s)) THEN <<" ">> \o CollapseSpaces(LStrip(s))
    ELSE <<Head(s)>> \o CollapseSpaces(Tail(s))

clean_html(raw_html) ==
    IF Len(raw_html) = 0 THEN <<>>
    ELSE Strip(CollapseSpaces(RemoveTags(raw_html)))

\* None where a string is expected; "None" is no character
NoneStr == <<"None">>

\* get_flag: the two regional-indicator code points, or the empty string
\* (country codes of ASCII letters)
get_flag(country_code) ==
    IF country_code = NoneStr \/ Len(country_code) = 0 THEN <<>>
    ELSE IF Len(country_code) # 2 THEN <<>>
    ELSE LET code == [i \in DOMAIN country_code |-> UpperChar(country_code[i])]
         IN <<FLAG_OFFSET + Ord(code[1]), FLAG_OFFSET + Ord(code[2])>>

----------------------------------------------------------------------------
(* CreditService *)

\* get_credits reading a ledger that deduct_credits wrote to
get_credits_ledger(user_id) ==
    settings.DEFAULT_CREDITS
    - settings.LIVE_CARD_COST
      * Cardinality({ r \in BagToSet(requests) : r.user_id = user_id /\ r.deducted })

\* get_credits: the second component of the pair it returns
get_credits(user_id) == settings.DEFAULT_CREDITS

\* deduct_credits: logs and returns True; nothing is stored
deduct_credits(user_id, amount) == TRUE

\* has_sufficient_credits with required = None
has_sufficient_credits(user_id) ==
    get_credits(user_id) >= settings.LIVE_CARD_COST

----------------------------------------------------------------------------
(* CheckerService *)

COOKIE_EXPIRED_PATTERNS ==
    << <<"c", "o", "o", "k", "i", "e", " ", "e", "x", "p", "i", "r", "a", "d", "a">>,
       <<"i", "n", "v", "a", "l", "i", "d", " ", "c", "o", "o", "k", "i", "e">>,
       <<"s", "e", "s", "s", "i", "o", "n", " ", "e", "x", "p", "i", "r", "e", "d">>,
       <<"c", "o", "o", "k", "i", "e", " ", "i", "n", "v", "a_acute", "l", "i", "d", "a">>,
       <<"l", "o", "g", "i", "n", " ", "r", "e", "q", "u", "i", "r", "e", "d">>,
       <<"p", "l", "e", "a", "s", "e", " ", "l", "o", "g", "i", "n">>,
       <<"a", "u", "t", "e", "n", "t", "i", "c", "a", "c", "i", "[o o_acute]", "n", " ",
         "r", "e", "q", "u", "e", "r", "i", "d", "a">>,
       <<"c", "o", "n", "t", "a", " ", "s", "e", "m", " ", "e", "n", "d", "e", "r", "e",
         "c_cedilla", "o">>,
       <<"c", "o", "l", "o", "q", "u", "e", " ", "o", "s", " ", "c", "o", "o", "k", "i",
         "e", "s", " ", "d", "a", " ", "a", "m", "a", "z", "o", "n">>,
       <<"a", "u", "t", "h", "e", "n", "t", "i", "c", "a", "t", "i", "o", "n", " ",
         "r", "e", "q", "u", "i", "r", "e", "d">> >>

LIVE_PATTERNS ==
    << <<"a", "p", "r", "o", "v", "a", "d", "a">>,
       <<"t", "a", "r", "j", "e", "t", "a", " ", "a", "u", "t", "o", "r", "i", "z", "a",
         "d", "a">>,
       <<"a", "p", "r", "o", "v", "a", "d", "o">>,
       <<"a", "p", "p", "r", "o", "v", "e", "d">>,
       <<"s", "u", "c", "c", "e", "s", "s">>,
       <<"a", "u", "t", "h", "o", "r", "i", "z", "e", "d">> >>

DEAD_PATTERNS ==
    << <<"r", "e", "p", "r", "o", "v", "a", "d", "a">>,
       <<"r", "e", "c", "h", "a", "z", "a", "d", "a">>,
       <<"r", "e", "c", "u", "s", "a", "d", "o">>,
       <<"d", "e", "c", "l", "i", "n", "e", "d">>,
       <<"r", "e", "j", "e", "c", "t", "e", "d">>,
       <<"f", "a", "i", "l", "e", "d">> >>

\* the characters one element of a pattern matches: itself, or the members
\* of a character class
PatternClass(p) == IF p = "[o o_acute]" THEN {"o", "o_acute"} ELSE {p}

\* one pattern element against one character, with or without re.I
MatchChar(p, c, ignorecase) ==
    IF ignorecase
    THEN \E q \in PatternClass(p) : LowerChar(q) = LowerChar(c)
    ELSE c \in PatternClass(p)

\* re.search(pattern, text[, re.I]) is not None
Search(pattern, text, ignorecase) ==
    \E i \in 1..(Len(text) - Len(pattern) + 1) :
        \A k \in DOMAIN pattern : MatchChar(pattern[k], text[i + k - 1], ignorecase)

check_cookie_expired(html) ==
    IF Len(html) = 0 THEN FALSE
    ELSE \E n \in DOMAIN COOKIE_EXPIRED_PATTERNS :
            Search(COOKIE_EXPIRED_PATTERNS[n], html, TRUE)

\* determine_card_status looking for the dead patterns first
determine_card_status_dead_first(response_text) ==
    IF Len(response_text) = 0 THEN "DESCONOCIDO"
    ELSE LET text_lower == Lower(response_text) IN
      IF \E n \in DOMAIN DEAD_PATTERNS : Search(DEAD_PATTERNS[n], text_lower, FALSE)
      THEN "MUERTA"
      ELSE IF \E n \in DOMAIN LIVE_PATTERNS :
                 Search(LIVE_PATTERNS[n], text_lower, FALSE)
           THEN "VIVA"
           ELSE "DESCONOCIDO"

determine_card_status(response_text) ==
    IF Len(response_text) = 0 THEN "DESCONOCIDO"
    ELSE LET text_lower == Lower(response_text) IN
      IF \E n \in DOMAIN LIVE_PATTERNS : Search(LIVE_PATTERNS[n], text_lower, FALSE)
      THEN "VIVA"
      ELSE IF \E n \in DOMAIN DEAD_PATTERNS :
                 Search(DEAD_PATTERNS[n], text_lower, FALSE)
           THEN "MUERTA"
           ELSE "DESCONOCIDO"

\* check_card_with_api without the check of the status code
check_card_with_api_any_status(net) ==
    IF net.exc = "Timeout"
    THEN [success |-> FALSE, error |-> "Timeout: API request took too long"]
    ELSE IF net.exc = "RequestException"
    THEN [success |-> FALSE, error |-> "Connection error"]
    ELSE IF net.exc # "none"
    THEN [success |-> FALSE, error |-> "Unexpected error"]
    ELSE [success |-> TRUE, data |-> net.text]

\* What requests.post to the checker does: exc is the exception it raises
\* ("none": it returns), status and text are the response's
\* check_card_with_api: the dict it returns
check_card_with_api(net) ==
    IF net.exc = "Timeout"
    THEN [success |-> FALSE, error |-> "Timeout: API request took too long"]
    ELSE IF net.exc = "RequestException"
    THEN [success |-> FALSE, error |-> "Connection error"]
    ELSE IF net.exc # "none"
    THEN [success |-> FALSE, error |-> "Unexpected error"]
    ELSE IF net.status # 200
    THEN [success |-> FALSE, error |-> "API returned status code"]
    ELSE [success |-> TRUE, data |-> net.text]

----------------------------------------------------------------------------
(* BinService *)

N_A == <<"N", "/", "A">>

default_info == [raised |-> FALSE, banco |-> N_A, pais |-> N_A, flag |-> <<>>]

\* a key that a JSON object does not hold
Missing == <<"Missing">>

\* d.get(key, default) on a field of the BIN response
GetOr(value, default) == IF value = Missing THEN default ELSE value

\* The try block of get_bin_info.  net is what requests.get does: exc the
\* exception it raises, status the response's, json the kind of its body
\* ("invalid": not JSON; "array": JSON, no object; "object"), bank and
\* country the kind of those two members ("absent", "null", "string",
\* "object"), and the members of those.
\* raised: an exception left the block; returned: its return was reached
bin_lookup(bin_code, net) ==
    LET none == [raised |-> FALSE, returned |-> FALSE, info |-> default_info]
        exception == [raised |-> TRUE, returned |-> FALSE, info |-> default_info]
    IN
    IF net.exc # "none" THEN exception
    ELSE IF net.status # 200 THEN none
    ELSE IF net.json = "invalid" THEN exception    \* response.json() raises
    ELSE IF net.json # "object" THEN exception     \* data.get: AttributeError
    ELSE IF net.bank \in {"null", "string"} THEN exception
    ELSE IF net.country \in {"null", "string"} THEN exception
    ELSE LET bank_name ==
                 IF net.bank = "absent" THEN N_A ELSE GetOr(net.bank_name, N_A)
             country_name ==
                 IF net.country = "absent" THEN N_A
                 ELSE GetOr(net.country_name, N_A)
             country_code ==
                 IF net.country = "absent" THEN <<>>
                 ELSE GetOr(net.alpha2, <<>>)
         IN [raised |-> FALSE, returned |-> TRUE,
             info |-> [raised |-> FALSE, banco |-> bank_name,
                       pais |-> country_name, flag |-> get_flag(country_code)]]

\* get_bin_info catching only the timeout
get_bin_info_timeout_only(bin_code, net) ==
    IF Len(bin_code) = 0 \/ Len(bin_code) < BIN_LEN THEN default_info
    ELSE LET try == bin_lookup(SubSeq(bin_code, 1, BIN_LEN), net) IN
      IF try.raised
      THEN IF net.exc = "Timeout" THEN default_info
           ELSE [default_info EXCEPT !.raised = TRUE]
      ELSE IF try.returned THEN try.info
      ELSE default_info

\* get_bin_info: raised is whether an exception leaves it
get_bin_info(bin_code, net) ==
    IF Len(bin_code) = 0 \/ Len(bin_code) < BIN_LEN THEN default_info
    ELSE LET try == bin_lookup(SubSeq(bin_code, 1, BIN_LEN), net) IN
      IF try.raised THEN default_info       \* except Timeout, except Exception
      ELSE IF try.returned THEN try.info
      ELSE default_info

----------------------------------------------------------------------------
(* The inputs of the model *)

Rep(c, n) == [i \in 1..n |-> c]

SeqsUpTo(S, n) == UNION {[1..k -> S] : k \in 0..n}

RECURSIVE Concat(_)
Concat(ss) == IF Len(ss) = 0 THEN <<>> ELSE Head(ss) \o Concat(Tail(ss))

Card(number, month, year, cvv) ==
    number \o <<"|">> \o month \o <<"|">> \o year \o <<"|">> \o cvv

ValidCard ==
    Card(Rep("4", 16), <<"1", "2">>, <<"2", "0", "2", "5">>, <<"1", "2", "3">>)

\* the "cc" member of a request body
CcSamples ==
    { <<>>,
      <<" ">> \o ValidCard,
      Card(Rep("4", MIN_CC_LEN - 1), <<"1", "2">>, <<"2", "0", "2", "5">>,
           <<"1", "2", "3">>),
      Card(Rep("4", 16), <<"sup2", "sup2">>, <<"2", "0", "2", "5">>,
           <<"1", "2", "3">>) }

CookieSamples == { <<>>, <<" ">>, <<"c">> }

\* request.get_json(silent=True): "none" is None or a falsy value, "array"
\* a truthy value that is no object
JsonSamples ==
    { [kind |-> "none"], [kind |-> "array"],
      [kind |-> "object", obj |-> [user_id |-> 1]],
      [kind |-> "object",
       obj |-> [cc |-> <<" ">> \o ValidCard, cookie |-> <<"c">>, user_id |-> 1]] }
    \cup { [kind |-> "object", obj |-> [cc |-> c, cookie |-> <<"c">>]] :
              c \in CcSamples }
    \cup { [kind |-> "object", obj |-> [cc |-> ValidCard, cookie |-> k]] :
              k \in CookieSamples \ {<<"c">>} }

NoText == <<>>

\* what the checker service answers
ResponseSamples ==
    { <<>>,
      <<"A", "p", "p", "r", "o", "v", "e", "d">>,
      <<"<", "b", ">", "D", "E", "C", "L", "I", "N", "E", "D", "<", "/", "b", ">">>,
      <<"S", "e", "s", "s", "i", "o", "n", " ", "E", "x", "p", "i", "r", "e", "d", " ",
        "a", "p", "p", "r", "o", "v", "e", "d">> }

\* what requests.post to the checker does
CheckerNets ==
    { [exc |-> e, status |-> 200, text |-> NoText] :
          e \in {"Timeout", "RequestException", "Exception"} }
    \cup { [exc |-> "none", status |-> 503, text |-> NoText] }
    \cup { [exc |-> "none", status |-> 200, text |-> t] : t \in ResponseSamples }

BankName == <<"B", "a", "n", "k">>
CountryName == <<"B", "r", "a", "s", "i", "l">>

BinNet(exc, status, json, bank, bank_name, country, country_name, alpha2) ==
    [exc |-> exc, status |-> status, json |-> json, bank |-> bank,
     bank_name |-> bank_name, country |-> country,
     country_name |-> country_name, alpha2 |-> alpha2]

\* what requests.get to the BIN service does
BinFailures ==
    { BinNet("Timeout", 200, "invalid", "absent", Missing, "absent", Missing, Missing),
      BinNet("RequestException", 200, "invalid", "absent", Missing, "absent", Missing,
             Missing),
      BinNet("none", 429, "object", "object", BankName, "object", CountryName,
             <<"b", "r">>),
      BinNet("none", 200, "invalid", "absent", Missing, "absent", Missing, Missing),
      BinNet("none", 200, "array", "absent", Missing, "absent", Missing, Missing),
      BinNet("none", 200, "object", "null", Missing, "object", CountryName,
             <<"B", "R">>),
      BinNet("none", 200, "object", "object", BankName, "string", Missing, Missing) }

BinAnswers ==
    { BinNet("none", 200, "object", "object", BankName, "object", CountryName,
             <<"b", "r">>),
      BinNet("none", 200, "object", "absent", Missing, "absent", Missing, Missing),
      BinNet("none", 200, "object", "object", NoneStr, "object", NoneStr, NoneStr) }

BinNets == BinFailures \cup BinAnswers

\* what requests.get does while a request is handled
BinSamples ==
    { n \in BinNets :
        \/ n.exc = "Timeout"
        \/ n.exc = "none" /\ n.status # 200
        \/ n.exc = "none" /\ n.status = 200 /\ n.json = "invalid"
        \/ n.exc = "none" /\ n.status = 200 /\ n.bank = "object"
              /\ n.country = "object" /\ n.alpha2 # NoneStr }

NoBinNet ==
    BinNet("unused", 0, "invalid", "absent", Missing, "absent", Missing, Missing)

NoCheckerNet == [exc |-> "unused", status |-> 0, text |-> NoText]

----------------------------------------------------------------------------
(* check_cc, the handler of /check_cc *)

NoResponse == [code |-> 0, json |-> FALSE, body |-> [text |-> <<>>]]

\* a request as it enters check_cc
NewRequest(method, data) ==
    [method |-> method, data |-> data, pc |-> "start",
     tarjeta |-> <<>>, cookie |-> <<>>, user_id |-> 0,
     seen_credits |-> -1, checker_net |-> NoCheckerNet,
     api_result |-> [success |-> FALSE], raw_response |-> <<>>,
     card_status |-> "", deducted |-> FALSE, bin_net |-> NoBinNet,
     bin_info |-> default_info, raised |-> FALSE,
     resp |-> NoResponse, credits_after |-> -1]

\* d.get(key, default) on the request body
Get(d, key, default) == IF key \in DOMAIN d THEN d[key] ELSE default

\* return jsonify(body), code; credits_after is what get_credits reports
\* for the user once the response is made
Respond(r, code, body) ==
    [r EXCEPT !.pc = "done",
              !.resp = [code |-> code, json |-> TRUE, body |-> body],
              !.credits_after = get_credits(r.user_id)]

Error(text, detail) == [estado |-> "ERROR", mensaje |-> <<text, detail>>]

\* check_cc without its except clause: the exception leaves the handler
\* and the framework answers with its own page
Except_missing(r) ==
    [r EXCEPT !.raised = TRUE, !.pc = "done",
              !.resp = [code |-> 500, json |-> FALSE, body |-> [text |-> <<>>]]]

\* the except clause of check_cc
Except(r) ==
    Respond([r EXCEPT !.raised = TRUE], 500,
            [estado |-> "ERROR",
             mensaje |-> <<"Error interno del servidor", "">>,
             timestamp |-> "now"])

\* check_cc up to the credit check: the preflight answer, the body, the
\* validations
validate_request(r) ==
    IF r.method = "OPTIONS"
    THEN [r EXCEPT !.pc = "done",
                   !.resp = [code |-> 200, json |-> FALSE, body |-> [text |-> <<>>]]]
    ELSE IF r.data.kind = "none"
    THEN Respond(r, 400, Error("No se recibieron datos JSON validos", ""))
    ELSE IF r.data.kind # "object"
    THEN Except(r)                           \* data.get: AttributeError
    ELSE LET tarjeta == Strip(Get(r.data.obj, "cc", <<>>))
             cookie == Strip(Get(r.data.obj, "cookie", <<>>))
             user_id == Get(r.data.obj, "user_id", DEFAULT_USER_ID)
             q == [r EXCEPT !.tarjeta = tarjeta, !.cookie = cookie,
                            !.user_id = user_id]
             valid == validate_cc_format(tarjeta)
         IN
      IF Len(tarjeta) = 0 \/ Len(cookie) = 0
      THEN Respond(q, 400, Error("Datos incompletos", ""))
      ELSE IF valid = "ValueError" THEN Except(q)
      ELSE IF valid # "True"
      THEN Respond(q, 400, Error("Formato de tarjeta invalido", ""))
      ELSE IF ~ validate_cookie(cookie)
      THEN Respond(q, 400, Error("Cookie invalida o vacia", ""))
      ELSE [q EXCEPT !.pc = "credits"]

\* the credit check
check_credits(r) ==
    LET q == [r EXCEPT !.seen_credits = get_credits(r.user_id)] IN
    IF ~ has_sufficient_credits(r.user_id)
    THEN Respond(q, 402, Error("Creditos insuficientes", ""))
    ELSE [q EXCEPT !.pc = "checker"]

\* the call of the checker service
call_checker(r, net) ==
    LET api_result == check_card_with_api(net)
        q == [r EXCEPT !.checker_net = net, !.api_result = api_result]
    IN
    IF ~ api_result.success
    THEN Respond(q, 500, Error("Error de API: ", api_result.error))
    ELSE [q EXCEPT !.raw_response = api_result.data, !.pc = "classify"]

\* the classification of the response and the deduction
classify(r) ==
    IF check_cookie_expired(r.raw_response)
    THEN Respond(r, 200,
                 [estado |-> "COOKIE_EXPIRADA",
                  mensaje |-> <<"Cookie invalida o expirada. Reemplazala.", "">>,
                  cc |-> r.tarjeta,
                  timestamp |-> "now"])
    ELSE LET card_status == determine_card_status(r.raw_response) IN
         [r EXCEPT !.card_status = card_status,
                   !.deducted = (card_status = "VIVA"
                                 /\ deduct_credits(r.user_id, settings.LIVE_CARD_COST)),
                   !.pc = "bin"]

\* the BIN lookup and the result
bin_and_result(r, net) ==
    LET number == Split(r.tarjeta, "|")[1]
        bin_code == SubSeq(number, 1, IF Len(number) < BIN_LEN THEN Len(number)
                                      ELSE BIN_LEN)
        bin_info == get_bin_info(bin_code, net)
        q == [r EXCEPT !.bin_net = net, !.bin_info = bin_info]
    IN
    IF bin_info.raised THEN Except(q)
    ELSE Respond(q, 200,
                 [estado |-> r.card_status,
                  cc |-> r.tarjeta,
                  banco |-> bin_info.banco,
                  pais |-> bin_info.pais,
                  flag |-> bin_info.flag,
                  raw |-> clean_html(r.raw_response),
                  timestamp |-> "now",
                  processing_time |-> "elapsed"])

----------------------------------------------------------------------------
(* Direct calls of the service functions *)

NoCall == [fn |-> "none", arg |-> <<>>, net |-> NoBinNet, returned |-> FALSE,
           ret |-> <<>>]

PendingCall(fn, arg, net) ==
    [fn |-> fn, arg |-> arg, net |-> net, returned |-> FALSE, ret |-> <<>>]

Pads == { <<Rep(" ", i), Rep("\n", j)>> : i \in 0..MaxPad, j \in 0..MaxPad }

NumberParts ==
    { Rep("4", n) : n \in {0, MIN_CC_LEN - 1, MIN_CC_LEN, MAX_CC_LEN, MAX_CC_LEN + 1} }
    \cup { Rep("4", MIN_CC_LEN) \o <<"x">> }

MonthParts ==
    { <<"0", "0">>, <<"0", "1">>, <<"1", "2">>, <<"1", "3">>, <<"1">>,
      <<" ", "1">>, <<"1", "x">>, <<"sup2", "2">> }

YearParts ==
    { <<"2", "0", "2", "3">>, <<"2", "0", "2", "4">>, <<"9", "9", "9", "9">>,
      <<"2", "0", "2">>, <<"0", "2", "0", "2", "4">>, <<"2", "0", "sup2", "5">> }

CvvParts ==
    { <<"1", "2">>, <<"1", "2", "3">>, <<"1", "2", "3", "4">>,
      <<"1", "2", "3", "4", "5">>, <<"1", "2", "x">> }

\* the arguments validate_cc_format is called with
CcInputs ==
    { p[1] \o Card(n, m, y, c) \o p[2] :
          p \in Pads, n \in NumberParts, m \in MonthParts, y \in YearParts,
          c \in CvvParts }
    \cup { p[1] \o ValidCard \o <<"|">> \o p[2] : p \in Pads }
    \cup { p[1] \o Rep("4", 16) \o <<"|", "1", "2", "|", "2", "0", "2", "5">> \o p[2] :
              p \in Pads }
    \cup { p[1] \o p[2] : p \in Pads }

HtmlChars == {"<", ">", "a", " ", "\n"}

\* the arguments clean_html is called with
HtmlInputs == SeqsUpTo(HtmlChars, MaxLen)

Words ==
    { <<"A", "p", "p", "r", "o", "v", "e", "d">>,
      <<"D", "E", "C", "L", "I", "N", "E", "D">>,
      <<"S", "e", "s", "s", "i", "o", "n", " ", "E", "x", "p", "i", "r", "e", "d">>,
      <<"p", "l", "e", "a", "s", "e", " ">>,
      <<"L", "O", "G", "I", "N">>,
      <<"u", "n">>,
      <<"a", "u", "t", "h", "o", "r", "i", "z", "e", "d">>,
      <<"o", "k">> }

\* the texts the two classifying functions are called with
TextInputs == { Concat(ws) : ws \in SeqsUpTo(Words, MaxWords) }

\* the BIN codes get_bin_info is called with
BinCodes == { Rep("4", n) : n \in 0..(BIN_LEN + 2) }

----------------------------------------------------------------------------
(* The state machine *)

\* settings is read once, from the defaults or the environment.  A
\* behaviour either serves /check_cc requests or makes one direct call of a
\* service function on an argument drawn here.
Init ==
    /\ requests = EmptyBag
    /\ \/ /\ call = NoCall
          /\ settings \in { [DEFAULT_CREDITS |-> d, LIVE_CARD_COST |-> LIVE_CARD_COST] :
                              d \in {DEFAULT_CREDITS, 0} }
       \/ /\ settings = [DEFAULT_CREDITS |-> DEFAULT_CREDITS,
                         LIVE_CARD_COST |-> LIVE_CARD_COST]
          /\ \/ call \in { PendingCall("validate_cc_format", a, NoBinNet) :
                             a \in CcInputs }
             \/ call \in { PendingCall("clean_html", a, NoBinNet) : a \in HtmlInputs }
             \/ call \in { PendingCall("classify", a, NoBinNet) : a \in TextInputs }
             \/ call \in { PendingCall("get_bin_info", a, n) :
                             a \in BinCodes, n \in BinNets }

Replace(r, q) == (requests (-) SetToBag({r})) (+) SetToBag({q})

Handling(pc) == { r \in BagToSet(requests) : r.pc = pc }

\* a request arrives
Receive ==
    /\ call.fn = "none"
    /\ BagCardinality(requests) < NumReq
    /\ \E method \in {"POST", "OPTIONS"}, data \in JsonSamples :
          /\ method = "OPTIONS" => data.kind = "none"
          /\ requests' = requests (+) SetToBag({NewRequest(method, data)})
    /\ UNCHANGED <<settings, call>>

ValidateRequest ==
    /\ \E r \in Handling("start") : requests' = Replace(r, validate_request(r))
    /\ UNCHANGED <<settings, call>>

CheckCredits ==
    /\ \E r \in Handling("credits") : requests' = Replace(r, check_credits(r))
    /\ UNCHANGED <<settings, call>>

CallChecker ==
    /\ \E r \in Handling("checker"), net \in CheckerNets :
          requests' = Replace(r, call_checker(r, net))
    /\ UNCHANGED <<settings, call>>

Classify ==
    /\ \E r \in Handling("classify") : requests' = Replace(r, classify(r))
    /\ UNCHANGED <<settings, call>>

BinAndResult ==
    /\ \E r \in Handling("bin"), net \in BinSamples :
          requests' = Replace(r, bin_and_result(r, net))
    /\ UNCHANGED <<settings, call>>

\* the response leaves
Deliver ==
    /\ \E r \in Handling("done") : requests' = requests (-) SetToBag({r})
    /\ UNCHANGED <<settings, call>>

Return(value) == call' = [call EXCEPT !.returned = TRUE, !.ret = value]

CallValidateCcFormat ==
    /\ call.fn = "validate_cc_format" /\ ~ call.returned
    /\ Return(validate_cc_format(call.arg))
    /\ UNCHANGED <<settings, requests>>

CallCleanHtml ==
    /\ call.fn = "clean_html" /\ ~ call.returned
    /\ Return(clean_html(call.arg))
    /\ UNCHANGED <<settings, requests>>

CallClassifiers ==
    /\ call.fn = "classify" /\ ~ call.returned
    /\ Return([expired |-> check_cookie_expired(call.arg),
               status |-> determine_card_status(call.arg)])
    /\ UNCHANGED <<settings, requests>>

CallGetBinInfo ==
    /\ call.fn = "get_bin_info" /\ ~ call.returned
    /\ Return(get_bin_info(call.arg, call.net))
    /\ UNCHANGED <<settings, requests>>

Next ==
    \/ Receive
    \/ ValidateRequest
    \/ CheckCredits
    \/ CallChecker
    \/ Classify
    \/ BinAndResult
    \/ Deliver
    \/ CallValidateCcFormat
    \/ CallCleanHtml
    \/ CallClassifiers
    \/ CallGetBinInfo

Spec == Init /\ [][Next]_vars

----------------------------------------------------------------------------
(* Properties *)

Done == Handling("done")

\* the responses to POST requests
Posted == { r \in Done : r.method = "POST" }

Estado(r) == r.resp.body.estado

\* C1: a POST /check_cc request answered 200 with a classified estado
\* lowers the user's balance: get_credits reports less after the request
\* than the handler read before it.
C1_BalanceDecremented ==
    \A r \in Posted :
        (r.resp.code = 200
         /\ Estado(r) \in {"VIVA", "MUERTA", "DESCONOCIDO", "COOKIE_EXPIRADA"})
        => r.credits_after < r.seen_credits

\* C2: the response to every POST /check_cc request is a JSON object whose
\* estado is one of VIVA, MUERTA, ERROR, COOKIE_EXPIRADA, DESCONOCIDO.
C2_EstadoOneOfFive ==
    \A r \in Posted :
        /\ r.resp.json
        /\ "estado" \in DOMAIN r.resp.body
        /\ Estado(r) \in {"VIVA", "MUERTA", "ERROR", "COOKIE_EXPIRADA", "DESCONOCIDO"}

\* a request that raised inside the handler and one that was classified
\* have both been answered
C2_Witness ==
    /\ \E r \in Posted : r.raised /\ Estado(r) = "ERROR"
    /\ \E r \in Posted : Estado(r) = "COOKIE_EXPIRADA"

\* C3: an exception raised inside the handler is answered 500 with estado
\* ERROR; check_card_with_api returns a dict that reports success exactly
\* when the checker answered 200 without an exception, and otherwise
\* carries an error text, which the handler answers 500 with estado ERROR.
C3_FailuresAnswered ==
    \A r \in Posted :
        /\ r.raised =>
              r.resp.json /\ r.resp.code = 500 /\ Estado(r) = "ERROR"
        /\ r.checker_net # NoCheckerNet =>
              /\ "success" \in DOMAIN r.api_result
              /\ r.api_result.success
                    <=> (r.checker_net.exc = "none" /\ r.checker_net.status = 200)
              /\ ~ r.api_result.success =>
                    /\ "error" \in DOMAIN r.api_result
                    /\ r.resp.json /\ r.resp.code = 500 /\ Estado(r) = "ERROR"
                    /\ r.resp.body.mensaje = <<"Error de API: ", r.api_result.error>>

\* a timeout of the checker call has been answered, and so has an
\* exception raised by the handler's own code
C3_Witness ==
    /\ \E r \in Posted : r.checker_net.exc = "Timeout" /\ r.resp.code = 500
    /\ \E r \in Posted : r.raised /\ r.data.kind = "object" /\ r.resp.code = 500

\* C4: every 200 response to a request whose checker call succeeded holds
\* estado, cc, banco, pais, flag, raw and timestamp.
C4_AllFieldsReturned ==
    \A r \in Posted :
        (r.resp.code = 200 /\ r.api_result.success)
        => {"estado", "cc", "banco", "pais", "flag", "raw", "timestamp"}
              \subseteq DOMAIN r.resp.body

\* a string of decimal digits
AllDecimal(s) == Len(s) > 0 /\ \A i \in DOMAIN s : IsDecimal(s[i])

\* the card strings C5 describes
WellFormedCard(cc) ==
    LET parts == Split(Strip(cc), "|") IN
    /\ Len(parts) = 4
    /\ \A i \in 1..4 : AllDecimal(parts[i])
    /\ Len(parts[1]) \in 13..19
    /\ Len(parts[2]) = 2 /\ DecimalNumber(parts[2]) \in 1..12
    /\ Len(parts[3]) = 4 /\ DecimalNumber(parts[3]) >= 2024
    /\ Len(parts[4]) \in 3..4

\* C5: validate_cc_format never raises, and returns True exactly for the
\* well-formed card strings.
C5_ValidatesWithoutRaising ==
    (call.fn = "validate_cc_format" /\ call.returned)
    => /\ call.ret # "ValueError"
       /\ call.ret = "True" <=> WellFormedCard(call.arg)

\* a BIN lookup that failed: the call raised, the status was not 200, or
\* the body was not the JSON expected (no JSON, no object, a bank or
\* country that is no object, or neither of the two)
BinFailed(net) ==
    \/ net \in BinFailures
    \/ net.exc = "none" /\ net.status = 200 /\ net.json = "object"
          /\ net.bank = "absent" /\ net.country = "absent"

\* C6: get_bin_info does not raise and returns N/A, N/A and no flag when
\* the BIN service fails or the code is shorter than six characters, and a
\* request whose BIN lookup failed is still answered 200 with the estado
\* determined from the checker response.
C6_BinFailureHarmless ==
    /\ (call.fn = "get_bin_info" /\ call.returned
        /\ (BinFailed(call.net) \/ Len(call.arg) < 6))
       => /\ ~ call.ret.raised
          /\ call.ret.banco = <<"N", "/", "A">>
          /\ call.ret.pais = <<"N", "/", "A">>
          /\ call.ret.flag = <<>>
    /\ \A r \in Posted :
          BinFailed(r.bin_net)
          => /\ r.resp.code = 200
             /\ Estado(r) = r.card_status
             /\ Estado(r) \in {"VIVA", "MUERTA", "DESCONOCIDO"}
             /\ r.resp.body.banco = <<"N", "/", "A">>
             /\ r.resp.body.pais = <<"N", "/", "A">>
             /\ r.resp.body.flag = <<>>

\* a request classified VIVA whose BIN lookup timed out has been answered
C6_Witness ==
    \E r \in Posted :
        /\ r.bin_net.exc = "Timeout"
        /\ r.card_status = "VIVA"
        /\ r.resp.code = 200

\* s holds a '<' and a later '>'
HasTag(s) == \E i \in DOMAIN s : \E j \in DOMAIN s : i < j /\ s[i] = "<" /\ s[j] = ">"

\* C7: the text clean_html returns holds no '<' followed by a later '>'.
C7_NoTagRemains ==
    (call.fn = "clean_html" /\ call.returned) => ~ HasTag(call.ret)

\* text holds the pattern as a substring
Contains(text, pattern) ==
    \E i \in 1..Len(text) : \E j \in i..Len(text) :
        /\ j - i + 1 = Len(pattern)
        /\ \A k \in DOMAIN pattern : text[i + k - 1] \in PatternClass(pattern[k])

ContainsAny(text, patterns) ==
    \E n \in DOMAIN patterns : Contains(text, patterns[n])

\* the verdict C8 gives a checker response
Verdict(text) ==
    IF text # <<>> /\ ContainsAny(Lower(text), COOKIE_EXPIRED_PATTERNS)
    THEN "COOKIE_EXPIRADA"
    ELSE IF ContainsAny(Lower(text), LIVE_PATTERNS) THEN "VIVA"
    ELSE IF ContainsAny(Lower(text), DEAD_PATTERNS) THEN "MUERTA"
    ELSE "DESCONOCIDO"

\* C8: a response matching a cookie-expired pattern without regard to case
\* is COOKIE_EXPIRADA whatever else it matches; otherwise it is VIVA when
\* its lower-cased text holds a live pattern, MUERTA when it holds a dead
\* pattern and no live one, DESCONOCIDO when it is empty or holds neither.
C8_ClassificationPrecedence ==
    /\ (call.fn = "classify" /\ call.returned)
       => /\ call.ret.expired <=> (Verdict(call.arg) = "COOKIE_EXPIRADA")
          /\ call.ret.status =
                (IF ContainsAny(Lower(call.arg), LIVE_PATTERNS) THEN "VIVA"
                 ELSE IF ContainsAny(Lower(call.arg), DEAD_PATTERNS) THEN "MUERTA"
                 ELSE "DESCONOCIDO")
    /\ \A r \in Posted :
          (r.api_result.success /\ r.resp.code = 200)
          => Estado(r) = Verdict(r.raw_response)

\* a response holding both a cookie-expired and a live pattern has been
\* answered COOKIE_EXPIRADA
C8_Witness ==
    \E r \in Posted :
        /\ ContainsAny(Lower(r.raw_response), LIVE_PATTERNS)
        /\ ContainsAny(Lower(r.raw_response), COOKIE_EXPIRED_PATTERNS)
        /\ Estado(r) = "COOKIE_EXPIRADA"

============================================================================
